---------------------------- MODULE Spec2Model ----------------------------
(***************************************************************************)
(* Model of geo-db: the per-line extraction engine (src/wiki_data_line.rs) *)
(* and the reader / worker pool / consumer pipeline (src/main.rs).         *)
(*                                                                         *)
(* Option<T> is modelled as a sequence of length at most one:              *)
(* None == << >>, Some(x) == <<x>>.  A JSON array is a sequence.  A string *)
(* that the code inspects character by character (a quantity amount) is a  *)
(* sequence of one-character strings.                                      *)
(***************************************************************************)
EXTENDS Integers, Sequences, FiniteSets, TLC

VARIABLES
    \* ---- the pipeline of main() ----
    reader,      \* position of the reader loop of main
    lineNumber,  \* line_number: how many lines the reader has taken
    cancelChan,  \* number of () messages in the bounded cancel channel
    interrupted, \* whether the interrupt signal has been delivered
    tasks,       \* the tasks spawned on the worker pool, by line number
    senders,     \* number of live Sender handles of the fact channel
    chan,        \* the fact channel: sent and not yet received
    received,    \* what the consumer (db_writer) has received, in order
    recvAlive,   \* whether the Receiver still exists
    consumer,    \* state of the db_writer thread
    process,     \* the process as a whole
    \* ---- handle_line applied to one line ----
    lrec,        \* the line given to handle_line, or the record given to
                 \* is_subclass_of
    lclass,      \* the class set given to is_subclass_of
    lout,        \* what handle_line did with it, or is_subclass_of's result
    ldone,       \* whether handle_line has been applied
    \* ---- parse_quantity applied to one amount ----
    qin,         \* the amount string
    qout,        \* parse_quantity's result
    qdone        \* whether parse_quantity has been applied

pipeVars == <<reader, lineNumber, cancelChan, interrupted, tasks, senders, chan, received,
              recvAlive, consumer, process>>
lineVars == <<lrec, lclass, lout, ldone>>
quantVars == <<qin, qout, qdone>>
vars == <<pipeVars, lineVars, quantVars>>

None == << >>
Some(x) == <<x>>
IsSome(o) == o # << >>
Unwrap(o) == o[1]

--------------------------------------------------------------------------
(* Bounds of the model *)

\* longest statement list of the properties the exclusion test reads
MaxExcl == 2
\* longest 'instance of' (P31) list
MaxP31 == 2
\* longest country (P17) list
MaxP17 == 2
\* longest population (P1082) list over the dated statements
MaxPop == 3
\* longest population (P1082) list over the statements of every shape
MaxPopShapes == 2
\* longest amount string given to parse_quantity
MaxStrLen == 4
\* number of lines the reader takes from the input
MaxLines == 2
MaxP37 == 2
MaxClasses == 3

--------------------------------------------------------------------------
(* wiki_time: evaluation of the dating qualifiers *)

\* the evaluation time; dates are small integers around it
Now == 2
Past == 1
Future == 3

\* Unknown (None) without a start time, else whether it has begun
is_object_start_active(q) ==
    IF IsSome(q.start) THEN Some(Unwrap(q.start) <= Now) ELSE None

\* Unknown (None) without an end time, else whether it has not ended
is_object_end_active(q) ==
    IF IsSome(q.end) THEN Some(Unwrap(q.end) >= Now) ELSE None

is_object_active(q) ==
    /\ is_object_start_active(q) # Some(FALSE)
    /\ is_object_end_active(q) # Some(FALSE)

\* a time string is modelled by the instant it denotes, negative when it
\* does not parse
parse_wikidata_time(time, zone) ==
    IF time < 0 THEN None ELSE Some(time)

--------------------------------------------------------------------------
(* Records: the JSON value of one line *)

NoQual == [start |-> None, end |-> None, P518 |-> FALSE, P1366 |-> FALSE,
           P1539 |-> FALSE, P1540 |-> FALSE, P585 |-> None]

\* a statement: mainsnak (snaktype and the parts of datavalue.value the code
\* reads) and qualifiers
Stmt0 == [snaktype |-> "value", vid |-> None, vstr |-> None,
          amount |-> None, unit |-> None, language |-> None, text |-> None,
          latitude |-> None, longitude |-> None, q |-> NoQual]

EntityStmt(id) == [Stmt0 EXCEPT !.vid = Some(id)]
StringStmt(s) == [Stmt0 EXCEPT !.vstr = Some(s)]
TextStmt(l, t) == [Stmt0 EXCEPT !.language = Some(l), !.text = Some(t)]

\* a line: kind "blank" (length <= 1), "badjson" (not JSON) or "object"
Rec0 == [kind |-> "object", id |-> Some("Q1"), labels |-> None,
         P31 |-> None, P17 |-> None, P37 |-> None, P131 |-> None,
         P297 |-> None, P300 |-> None, P424 |-> None, P576 |-> None,
         P625 |-> None, P1082 |-> None, P1366 |-> None, P1448 |-> None,
         P1705 |-> None, P2936 |-> None]

\* the class index (wiki_sparql::Classes): six sets of class ids
ClassIds == {"Qte", "Qte2", "Qhs", "Qex", "Qexs", "Qlang", "Qother"}
classes == [territorial_entities |-> {"Qte", "Qte2"},
            human_settlements |-> {"Qhs"},
            excluded |-> {"Qex"},
            excluded_settlements |-> {"Qexs"},
            second_level_admin_div |-> {"Qte2"},
            languages |-> {"Qlang"}]

--------------------------------------------------------------------------
(* Facts (database::DataEntry) and the sends of a handler *)

Country(id, iso) == [type |-> "Country", id |-> id, iso |-> iso]
TerritorialEntity(id, is_2nd, iso) ==
    [type |-> "TerritorialEntity", id |-> id, is_2nd |-> is_2nd, iso |-> iso]
TerritorialEntityParent(id, parent) ==
    [type |-> "TerritorialEntityParent", id |-> id, parent |-> parent]
ObjectLanguage(id, lang_id, index) ==
    [type |-> "ObjectLanguage", id |-> id, lang_id |-> lang_id, index |-> index]
ObjectLabel(id, lang, label, native_order) ==
    [type |-> "ObjectLabel", id |-> id, lang |-> lang, label |-> label,
     native_order |-> native_order]
Language(id, code) == [type |-> "Language", id |-> id, code |-> code]
MissingP17(id) == [type |-> "MissingP17", id |-> id]
CityCountry(id, country, priority) ==
    [type |-> "CityCountry", id |-> id, country |-> country,
     priority |-> priority]
City(id, population, lat, lon) ==
    [type |-> "City", id |-> id, population |-> population, lat |-> lat,
     lon |-> lon]

\* sink.send(fact)?  : a failed send returns HandleLineError::Sink
SendTry(fact) == [fact |-> fact, onfail |-> "Sink"]
\* sink.send(fact).unwrap() : a failed send panics
SendUnwrap(fact) == [fact |-> fact, onfail |-> "panic"]

\* the first element of an array, if any  (json path [0])
First(arr) == IF IsSome(arr) /\ Len(Unwrap(arr)) > 0
              THEN Some(Unwrap(arr)[1]) ELSE None

RECURSIVE Flatten(_)
Flatten(ss) == IF ss = << >> THEN << >> ELSE Head(ss) \o Flatten(Tail(ss))

--------------------------------------------------------------------------
(* parse_quantity *)

Whitespace == {" ", "\t"}
Digits == {"0", "1", "2", "3", "4", "5", "6", "7", "8", "9"}

DigitVal(c) ==
    CASE c = "0" -> 0 [] c = "1" -> 1 [] c = "2" -> 2 [] c = "3" -> 3
      [] c = "4" -> 4 [] c = "5" -> 5 [] c = "6" -> 6 [] c = "7" -> 7
      [] c = "8" -> 8 [] c = "9" -> 9

RECURSIVE DecValue(_)
DecValue(s) ==
    IF s = << >> THEN 0
    ELSE DecValue(SubSeq(s, 1, Len(s) - 1)) * 10 + DigitVal(s[Len(s)])

\* str::parse::<u64>(): an optional leading '+', then one or more decimal
\* digits.  (A value above 2^64 - 1 is an error too; it needs twenty digits,
\* more than any amount within MaxStrLen.)
ParseU64(s) ==
    LET body == IF Len(s) > 0 /\ s[1] = "+" THEN Tail(s) ELSE s
    IN  IF body = << >> \/ \E i \in 1..Len(body) : body[i] \notin Digits
        THEN None
        ELSE Some(DecValue(body))

\* the mutant: '.' is kept, so that a decimal point makes the amount unparseable
should_keep_char_dot(c) ==
    /\ c \notin Whitespace
    /\ c \notin {",", "+"}

should_keep_char(c) ==
    /\ c \notin Whitespace
    /\ c \notin {",", ".", "+"}

parse_quantity(n) ==
    IF \E i \in 1..Len(n) : ~should_keep_char(n[i])
    THEN ParseU64(SelectSeq(n, should_keep_char))
    ELSE ParseU64(n)

--------------------------------------------------------------------------
(* The handlers.  Each yields the sends it makes, in program order. *)

\* both human settlements and territorial entities
handle_place(obj) ==
    LET obj_id == Unwrap(obj.id)
    IN  IF ~IsSome(obj.P131) THEN << >>
        ELSE LET parents == Unwrap(obj.P131)
             IN  Flatten([i \in 1..Len(parents) |->
                    IF ~is_object_active(parents[i].q) THEN << >>
                    ELSE IF IsSome(parents[i].vid)
                    THEN <<SendTry(TerritorialEntityParent(obj_id,
                                        Unwrap(parents[i].vid)))>>
                    ELSE << >>])

\* the ObjectLabel sends for the label mapping (native_order: None)
PlainLabels(obj) ==
    LET obj_id == Unwrap(obj.id)
    IN  IF ~IsSome(obj.labels) THEN << >>
        ELSE LET labels == Unwrap(obj.labels)
             IN  Flatten([i \in 1..Len(labels) |->
                    IF IsSome(labels[i].language) /\ IsSome(labels[i].value)
                    THEN <<SendTry(ObjectLabel(obj_id,
                                Unwrap(labels[i].language),
                                Unwrap(labels[i].value), None))>>
                    ELSE << >>])

handle_territorial_entity(obj, is_2nd) ==
    LET obj_id == Unwrap(obj.id)
        p300 == First(obj.P300)
        iso == IF is_2nd /\ IsSome(p300) THEN Unwrap(p300).vstr ELSE None
        \* P37: official language, P2936: language used
        langsOpt == IF IsSome(obj.P37) THEN obj.P37 ELSE obj.P2936
        langs == Unwrap(langsOpt)
        Survives(i) == /\ langs[i].snaktype = "value"
                       /\ is_object_active(langs[i].q)
                       /\ IsSome(langs[i].vid)
        lang_index(i) == Cardinality({j \in 1..(i - 1) : Survives(j)})
    IN  <<SendTry(TerritorialEntity(obj_id, is_2nd, iso))>>
        \o handle_place(obj)
        \o (IF ~IsSome(langsOpt) THEN << >>
            ELSE Flatten([i \in 1..Len(langs) |->
                    IF Survives(i)
                    THEN <<SendTry(ObjectLanguage(obj_id,
                                Unwrap(langs[i].vid), lang_index(i)))>>
                    ELSE << >>]))
        \o PlainLabels(obj)

handle_language(obj) ==
    LET obj_id == Unwrap(obj.id)
        p424 == First(obj.P424)
    IN  IF IsSome(p424) /\ IsSome(Unwrap(p424).vstr)
        THEN <<SendTry(Language(obj_id, Unwrap(Unwrap(p424).vstr)))>>
        ELSE << >>

\* priority offset of a country statement without a start date
UndatedPriority == 1000

\* the mutant: the priority counts the surviving statements only
CountryPriority_survivors(entries, i) ==
    LET Skipped(j) ==
            \/ is_object_end_active(entries[j].q) = Some(FALSE)
            \/ is_object_start_active(entries[j].q) = Some(FALSE)
        k == Cardinality({j \in 1..(i - 1) : ~Skipped(j)})
    IN  IF IsSome(is_object_start_active(entries[i].q))
        THEN k ELSE UndatedPriority + k

\* prefer country entries with a start date over entries that don't have one
\* (i counts from 1 here, the code's enumerate() from 0)
CountryPriority(entries, i) ==
    IF IsSome(is_object_start_active(entries[i].q))
    THEN i - 1
    ELSE UndatedPriority + (i - 1)

\* the loop over the country (P17) statements
CountrySends(obj_id, country_entries) ==
    Flatten([i \in 1..Len(country_entries) |->
        LET qualifiers == country_entries[i].q
            start_active == is_object_start_active(qualifiers)
            end_active == is_object_end_active(qualifiers)
        IN  IF end_active = Some(FALSE) \/ start_active = Some(FALSE)
            THEN << >>
            ELSE IF IsSome(country_entries[i].vid)
            THEN <<SendUnwrap(CityCountry(obj_id,
                        Unwrap(country_entries[i].vid),
                        CountryPriority(country_entries, i)))>>
            ELSE << >>])

\* the time of a population statement's 'point in time' (P585) qualifier
PopulationTime(population_entry) ==
    LET p585 == population_entry.q.P585
        time_obj == Unwrap(p585).value
    IN  IF ~IsSome(p585) THEN None
        ELSE IF ~IsSome(time_obj) THEN None
        ELSE IF IsSome(Unwrap(time_obj).time) /\ IsSome(Unwrap(time_obj).timezone)
        THEN parse_wikidata_time(Unwrap(Unwrap(time_obj).time),
                                 Unwrap(Unwrap(time_obj).timezone))
        ELSE None

\* the mutant: the female / male population qualifiers are not looked at
NewPopulationTime_sexes(population_entry) ==
    IF population_entry.q.P518 THEN None
    ELSE PopulationTime(population_entry)

\* new_population_time after the three resets
NewPopulationTime(population_entry) ==
    IF \/ population_entry.q.P518     \* "applies to part"
       \/ population_entry.q.P1539    \* only the female population
       \/ population_entry.q.P1540    \* only the male population
    THEN None
    ELSE PopulationTime(population_entry)

\* the loop over the population (P1082) statements, from statement i on,
\* with the population and population_time found so far
RECURSIVE PopulationScan(_, _, _, _)
PopulationScan(entries, i, population, population_time) ==
    IF i > Len(entries)
    THEN [population |-> population, population_time |-> population_time]
    ELSE
    LET e == entries[i]
        p585 == e.q.P585
        new_population_time == NewPopulationTime(e)
        same == PopulationScan(entries, i + 1, population, population_time)
    IN  IF IsSome(p585) /\ Unwrap(p585).snaktype # "value" THEN same
        ELSE IF ~IsSome(new_population_time) THEN same
        ELSE IF ~(\/ ~IsSome(population_time)
                  \/ Unwrap(new_population_time) >= Unwrap(population_time))
        THEN same
        ELSE IF ~(IsSome(e.amount) /\ IsSome(e.unit)) THEN same
        ELSE IF Unwrap(e.unit) # "1" THEN same   \* population is unitless!
        ELSE IF IsSome(parse_quantity(Unwrap(e.amount)))
        THEN PopulationScan(entries, i + 1, parse_quantity(Unwrap(e.amount)),
                            new_population_time)
        ELSE same

\* the ObjectLabel sends with a native_order, from P1705 or else from P1448
NativeLabels(obj) ==
    LET obj_id == Unwrap(obj.id)
        Decomposes(c) == IsSome(c.language) /\ IsSome(c.text)
        SendsOf(claims, Eligible(_)) ==
            LET Valid(i) == Eligible(claims[i]) /\ Decomposes(claims[i])
                native_order_index(i) ==
                    Cardinality({j \in 1..(i - 1) : Valid(j)})
            IN  Flatten([i \in 1..Len(claims) |->
                    IF Valid(i)
                    THEN <<SendTry(ObjectLabel(obj_id,
                                Unwrap(claims[i].language),
                                Unwrap(claims[i].text),
                                Some(native_order_index(i))))>>
                    ELSE << >>])
        Every(c) == TRUE
        Active(c) == is_object_active(c.q)
    IN  IF IsSome(obj.P1705) THEN SendsOf(Unwrap(obj.P1705), Every)
        ELSE IF IsSome(obj.P1448) THEN SendsOf(Unwrap(obj.P1448), Active)
        ELSE << >>

\* the mutant: the handler goes on without the country property
handle_human_settlement_goes_on(obj) ==
    LET obj_id == Unwrap(obj.id)
    IN  (IF IsSome(obj.P17) THEN << >> ELSE <<SendTry(MissingP17(obj_id))>>)
        \o handle_place(obj)
        \o <<SendTry(City(obj_id, None, None, None))>>
        \o PlainLabels(obj)

handle_human_settlement(obj) ==
    LET obj_id == Unwrap(obj.id)
        found == IF IsSome(obj.P1082)
                 THEN PopulationScan(Unwrap(obj.P1082), 1, None, None)
                 ELSE [population |-> None, population_time |-> None]
        coords == First(obj.P625)
        has_lat_lon == /\ IsSome(coords)
                       /\ Unwrap(coords).snaktype = "value"
                       /\ IsSome(Unwrap(coords).latitude)
                       /\ IsSome(Unwrap(coords).longitude)
    IN  IF ~IsSome(obj.P17)
        THEN \* we cannot use the entry without its country
             <<SendTry(MissingP17(obj_id))>>
        ELSE handle_place(obj)
             \o CountrySends(obj_id, Unwrap(obj.P17))
             \o <<SendTry(City(obj_id, found.population,
                    IF has_lat_lon THEN Unwrap(coords).latitude ELSE None,
                    IF has_lat_lon THEN Unwrap(coords).longitude ELSE None))>>
             \o PlainLabels(obj)
             \o NativeLabels(obj)

--------------------------------------------------------------------------
(* is_subclass_of and handle_line *)

\* whether 'instance of' statement parent makes obj a member of classes
Qualifies(parent, class_set) ==
    /\ IsSome(parent.vid)
    /\ Unwrap(parent.vid) \in class_set
    /\ is_object_active(parent.q)      \* the relation is not expired
    /\ ~parent.q.P1366                 \* P1366: "replaced by"

\* the mutant: the scan ends at the first statement whose class is in the
\* set, whether or not it is active
is_subclass_of_first(obj, class_set) ==
    /\ IsSome(obj.P31)
    /\ \E i \in 1..Len(Unwrap(obj.P31)) :
          LET parents == Unwrap(obj.P31)
              InSet(j) == /\ IsSome(parents[j].vid)
                          /\ Unwrap(parents[j].vid) \in class_set
          IN  /\ InSet(i)
              /\ \A j \in 1..(i - 1) : ~InSet(j)
              /\ Qualifies(parents[i], class_set)

RECURSIVE SubclassScan(_, _, _)
SubclassScan(parents, i, class_set) ==
    IF i > Len(parents) THEN FALSE
    ELSE IF Qualifies(parents[i], class_set) THEN TRUE
    ELSE SubclassScan(parents, i + 1, class_set)

is_subclass_of(obj, class_set) ==
    IF IsSome(obj.P31) THEN SubclassScan(Unwrap(obj.P31), 1, class_set)
    ELSE FALSE

\* str::to_ascii_lowercase on the country codes of the model
to_ascii_lowercase(s) ==
    CASE s = "DE" -> "de" [] s = "Fr" -> "fr" [] OTHER -> s

\* P1366 replaced by but not P518 applies to part
replaced_by(obj) ==
    /\ IsSome(obj.P1366)
    /\ LET a == Unwrap(obj.P1366)
       IN  /\ a # << >>
           /\ ~\E i \in 1..Len(a) : a[i].q.P518

\* the global exclusion test
is_dropped(obj) ==
    \/ replaced_by(obj)
    \/ IsSome(obj.P576) /\ Unwrap(obj.P576) # << >>

\* the P297 block with lang_index counting every P37 statement
CountryCodeSends_counts_all(obj) ==
    LET obj_id == Unwrap(obj.id)
        code_entries == Unwrap(obj.P297)
        actives == {i \in 1..Len(code_entries) :
                        is_object_active(code_entries[i].q)}
        iso == IF actives = {} THEN None
               ELSE code_entries[CHOOSE i \in actives :
                        \A j \in actives : i <= j].vstr
        langs == Unwrap(obj.P37)
    IN  (IF IsSome(iso)
         THEN <<SendTry(Country(obj_id, to_ascii_lowercase(Unwrap(iso))))>>
         ELSE << >>)
        \o (IF ~IsSome(obj.P37) THEN << >>
            ELSE Flatten([i \in 1..Len(langs) |->
                    IF is_object_active(langs[i].q) /\ IsSome(langs[i].vid)
                    THEN <<SendTry(ObjectLanguage(obj_id,
                                Unwrap(langs[i].vid), i - 1))>>
                    ELSE << >>]))

\* the P297 block: the Country send and the ObjectLanguage sends
CountryCodeSends(obj) ==
    LET obj_id == Unwrap(obj.id)
        code_entries == Unwrap(obj.P297)
        actives == {i \in 1..Len(code_entries) :
                        is_object_active(code_entries[i].q)}
        code_entry == IF actives = {} THEN None
                      ELSE Some(code_entries[CHOOSE i \in actives :
                                    \A j \in actives : i <= j])
        iso == IF IsSome(code_entry) THEN Unwrap(code_entry).vstr ELSE None
        langs == Unwrap(obj.P37)
        Survives(i) == is_object_active(langs[i].q) /\ IsSome(langs[i].vid)
        lang_index(i) == Cardinality({j \in 1..(i - 1) : Survives(j)})
    IN  (IF IsSome(iso)
         THEN <<SendTry(Country(obj_id, to_ascii_lowercase(Unwrap(iso))))>>
         ELSE << >>)
        \o (IF ~IsSome(obj.P37) THEN << >>
            ELSE Flatten([i \in 1..Len(langs) |->
                    IF Survives(i)
                    THEN <<SendTry(ObjectLanguage(obj_id,
                                Unwrap(langs[i].vid), lang_index(i)))>>
                    ELSE << >>]))

\* the sends of the handlers with the language handler behind the
\* exclusion gate too
DispatchSends_language_gated(obj) ==
    LET is_excluded == is_subclass_of(obj, classes.excluded)
    IN  (IF is_subclass_of(obj, classes.territorial_entities) /\ ~is_excluded
         THEN handle_territorial_entity(obj,
                is_subclass_of(obj, classes.second_level_admin_div))
         ELSE << >>)
        \o (IF /\ is_subclass_of(obj, classes.human_settlements)
               /\ ~is_excluded
               /\ ~is_subclass_of(obj, classes.excluded_settlements)
            THEN handle_human_settlement(obj)
            ELSE << >>)
        \o (IF is_subclass_of(obj, classes.languages) /\ ~is_excluded
            THEN handle_language(obj)
            ELSE << >>)

\* the sends of the handlers the classification flags select
DispatchSends(obj) ==
    LET is_territorial_entity == is_subclass_of(obj, classes.territorial_entities)
        is_human_settlement == is_subclass_of(obj, classes.human_settlements)
        is_excluded == is_subclass_of(obj, classes.excluded)
        is_language == is_subclass_of(obj, classes.languages)
    IN  (IF is_territorial_entity /\ ~is_excluded
         THEN handle_territorial_entity(obj,
                is_subclass_of(obj, classes.second_level_admin_div))
         ELSE << >>)
        \o (IF /\ is_human_settlement
               /\ ~is_excluded
               /\ ~is_subclass_of(obj, classes.excluded_settlements)
            THEN handle_human_settlement(obj)
            ELSE << >>)
        \o (IF is_language THEN handle_language(obj) ELSE << >>)

\* handle_line: how the call ends when every send succeeds ("Ok", "Json" for
\* HandleLineError::Json, "panic") and the sends it makes on the way, in
\* order.  A send that fails ends the call there, as its onfail says.
handle_line(line) ==
    IF line.kind = "blank"
    THEN \* an empty line or one of the [ or ] array boundary lines
         [result |-> "Ok", sends |-> << >>]
    ELSE IF line.kind = "badjson"
    THEN [result |-> "Json", sends |-> << >>]
    ELSE IF ~IsSome(line.id)
    THEN [result |-> "panic", sends |-> << >>]     \* expect("object has no id!")
    ELSE IF is_dropped(line)
    THEN [result |-> "Ok", sends |-> << >>]
    ELSE [result |-> "Ok",
          sends |-> (IF IsSome(line.P297) THEN CountryCodeSends(line)
                     ELSE << >>)
                    \o DispatchSends(line)]

--------------------------------------------------------------------------
(* The inputs of the model *)

Dated(stmt, start, end) ==
    [stmt EXCEPT !.q = [@ EXCEPT !.start = start, !.end = end]]

\* the datings a statement's qualifiers can have
Datings == {None, Some(Past), Some(Future)}

\* lines that are no usable record
MalformedLines ==
    {[Rec0 EXCEPT !.kind = "blank"], [Rec0 EXCEPT !.kind = "badjson"],
     [Rec0 EXCEPT !.id = None]}

\* ---- amounts ----
QuantChars == {"1", "2", "5", ",", ".", "+", " ", "a"}
\* the amounts the specification names
NamedAmounts == {<<"1", ",", "2", "3", "4">>, <<"+", "5", "6">>,
                 <<" ", "1", "2", " ">>, <<"1", "2", ".", "5">>,
                 <<"a", "b", "c">>}

\* ---- 'instance of' statements ----
P31Stmts ==
    {[Dated(Stmt0, d[1], d[2]) EXCEPT !.vid = id, !.q.P1366 = r] :
        d \in {<<None, None>>, <<Some(Future), None>>, <<None, Some(Past)>>},
        id \in {None, Some("Qte"), Some("Qhs"), Some("Qother")},
        r \in BOOLEAN}
ClassSets == {classes.territorial_entities, classes.human_settlements,
              {"Qte", "Qhs"}}

\* ---- records for the exclusion test ----
ExclBase ==
    [Rec0 EXCEPT !.labels = Some(<<[language |-> Some("en"),
                                    value |-> Some("Place")]>>),
                 !.P17 = Some(<<EntityStmt("Qc")>>),
                 !.P424 = Some(<<StringStmt("xx")>>)]
ReplacedByStmts == {EntityStmt("Qn"), [EntityStmt("Qn") EXCEPT !.q.P518 = TRUE]}
ExclP31s == {None, Some(<<EntityStmt("Qte")>>), Some(<<EntityStmt("Qhs")>>),
             Some(<<EntityStmt("Qlang")>>)}

\* ---- human settlements ----
Coordinates == [Stmt0 EXCEPT !.latitude = Some(48), !.longitude = Some(11)]
PointInTime(snaktype, value) ==
    Some([snaktype |-> snaktype, value |-> value])
TimeValue(time, timezone) == Some([time |-> time, timezone |-> timezone])
PopStmt(p585, amount, unit) ==
    [Stmt0 EXCEPT !.amount = amount, !.unit = unit, !.q.P585 = p585]
At(t) == PointInTime("value", TimeValue(Some(t), Some(0)))

HSBase ==
    [Rec0 EXCEPT !.P31 = Some(<<EntityStmt("Qhs")>>),
                 !.labels = Some(<<[language |-> Some("en"),
                                    value |-> Some("Town")]>>),
                 !.P17 = Some(<<EntityStmt("Qc")>>),
                 !.P131 = Some(<<EntityStmt("Qp")>>),
                 !.P625 = Some(<<Coordinates>>),
                 !.P1082 = Some(<<PopStmt(At(1), Some(<<"7">>), Some("1"))>>),
                 !.P1705 = Some(<<TextStmt("de", "Stadt")>>),
                 !.P1448 = Some(<<TextStmt("fr", "Ville")>>)]

CountryStmts ==
    {[Dated(Stmt0, s, e) EXCEPT !.vid = id] :
        s \in Datings, e \in Datings, id \in {None, Some("Qc")}}
\* population statements with a parseable point in time
DatedPopStmts ==
    {[PopStmt(At(t), Some(a), Some("1")) EXCEPT !.q.P1539 = f] :
        t \in 1..3, a \in {<<"1", "2">>, <<"7">>, <<"a", "b", "c">>},
        f \in BOOLEAN}
\* population statements of every shape
PointsInTime ==
    {None, PointInTime("novalue", None), PointInTime("value", None),
     PointInTime("value", TimeValue(Some(2), None)),
     PointInTime("value", TimeValue(Some(-1), Some(0))), At(1), At(2)}
ShapedPopStmts ==
    {[PopStmt(p, Some(<<"1", ",", "2", "3", "4">>), Some("1"))
        EXCEPT !.q.P518 = (d = "P518"), !.q.P1539 = (d = "P1539"),
               !.q.P1540 = (d = "P1540")] :
        p \in PointsInTime, d \in {"none", "P518", "P1539", "P1540"}}
    \cup {PopStmt(At(t), au[1], au[2]) :
            t \in 1..2,
            au \in {<<Some(<<"1", "2">>), Some("Qkm")>>,
                    <<None, Some("1")>>, <<Some(<<"1", "2">>), None>>}}
--------------------------------------------------------------------------
(* Specifications of the functions: an input is drawn, the function applied *)

PipeIdle ==
    /\ reader = "Running" /\ lineNumber = 0 /\ cancelChan = 0
    /\ interrupted = FALSE
    /\ tasks = << >> /\ senders = 1 /\ chan = << >> /\ received = << >>
    /\ recvAlive = TRUE /\ consumer = "receiving" /\ process = "running"
LineIdle ==
    /\ lrec = [Rec0 EXCEPT !.kind = "blank"] /\ lclass = {}
    /\ lout = None /\ ldone = FALSE
QuantIdle == qin = << >> /\ qout = None /\ qdone = FALSE

\* ---- parse_quantity ----
InitQuantity ==
    /\ PipeIdle /\ LineIdle
    /\ qout = None /\ qdone = FALSE
    /\ \/ \E k \in 0..MaxStrLen : qin \in [1..k -> QuantChars]
       \/ qin \in NamedAmounts

ApplyParseQuantity ==
    /\ ~qdone
    /\ qout' = parse_quantity(qin)
    /\ qdone' = TRUE
    /\ UNCHANGED <<qin, pipeVars, lineVars>>

SpecQuantity == InitQuantity /\ [][ApplyParseQuantity]_vars

\* ---- is_subclass_of ----
InitSubclass ==
    /\ PipeIdle /\ QuantIdle
    /\ lclass \in ClassSets
    /\ lout = None /\ ldone = FALSE
    /\ \/ lrec = Rec0
       \/ \E k \in 0..MaxP31 : \E a \in [1..k -> P31Stmts] :
             lrec = [Rec0 EXCEPT !.P31 = Some(a)]

ApplyIsSubclassOf ==
    /\ ~ldone
    /\ lout' = Some(is_subclass_of(lrec, lclass))
    /\ ldone' = TRUE
    /\ UNCHANGED <<lrec, lclass, pipeVars, quantVars>>

SpecSubclass == InitSubclass /\ [][ApplyIsSubclassOf]_vars

\* ---- handle_line, every send succeeding ----
\* records for the exclusion test
ExclInput ==
    \E p31 \in ExclP31s, p297 \in {None, Some(<<StringStmt("DE")>>)},
       k1 \in 0..MaxExcl, k2 \in 0..MaxExcl :
    \E a1 \in [1..k1 -> ReplacedByStmts], a2 \in [1..k2 -> {Stmt0}],
       no1 \in BOOLEAN, no2 \in BOOLEAN :
        /\ no1 => k1 = 0
        /\ no2 => k2 = 0
        /\ lrec = [ExclBase EXCEPT !.P31 = p31, !.P297 = p297,
                        !.P1366 = IF no1 THEN None ELSE Some(a1),
                        !.P576 = IF no2 THEN None ELSE Some(a2)]

\* human settlements over the country (P17) statements
CountryInput ==
    \/ lrec = [HSBase EXCEPT !.P17 = None]
    \/ \E k \in 0..MaxP17 : \E a \in [1..k -> CountryStmts] :
          lrec = [HSBase EXCEPT !.P17 = Some(a)]

\* human settlements without a country property, over what else they have
MissingCountryInput ==
    \E p31 \in {<<EntityStmt("Qhs")>>,
                 <<EntityStmt("Qother"), EntityStmt("Qhs")>>,
                 <<Dated(EntityStmt("Qhs"), Some(Future), None),
                   EntityStmt("Qhs")>>},
       keep \in [{"labels", "P131", "P625", "P1082", "P1705", "P1448"}
                    -> BOOLEAN] :
        lrec = [HSBase EXCEPT
                  !.P31 = Some(p31), !.P17 = None,
                  !.labels = IF keep["labels"] THEN @ ELSE None,
                  !.P131 = IF keep["P131"] THEN @ ELSE None,
                  !.P625 = IF keep["P625"] THEN @ ELSE None,
                  !.P1082 = IF keep["P1082"] THEN @ ELSE None,
                  !.P1705 = IF keep["P1705"] THEN @ ELSE None,
                  !.P1448 = IF keep["P1448"] THEN @ ELSE None]

\* human settlements over the population (P1082) statements
PopulationInput ==
    \/ lrec = [HSBase EXCEPT !.P1082 = None]
    \/ \E k \in 0..MaxPop : \E a \in [1..k -> DatedPopStmts] :
          lrec = [HSBase EXCEPT !.P1082 = Some(a)]
    \/ \E k \in 0..MaxPopShapes : \E a \in [1..k -> ShapedPopStmts] :
          lrec = [HSBase EXCEPT !.P1082 = Some(a)]

\* records over the official language (P37) statements, with and without
\* a country code (P297), of every class
LanguageStmts ==
    {Dated(IF id = None THEN Stmt0 ELSE EntityStmt(Unwrap(id)), d[1], d[2]) :
        d \in {<<None, None>>, <<Some(Future), None>>, <<None, Some(Past)>>},
        id \in {None, Some("Qde"), Some("Qfr")}}
CountryCodes ==
    {None, Some(<< >>), Some(<<StringStmt("DE")>>),
     Some(<<Dated(StringStmt("DE"), Some(Future), None)>>)}
LanguageInput ==
    \E p31 \in ExclP31s, p297 \in CountryCodes, k \in 0..MaxP37, no \in BOOLEAN :
    \E a \in [1..k -> LanguageStmts] :
        /\ no => k = 0
        /\ lrec = [ExclBase EXCEPT !.P31 = p31, !.P297 = p297,
                        !.P37 = IF no THEN None ELSE Some(a)]

\* records over their classes: 'instance of' statements naming a territorial
\* entity, a human settlement, an excluded class, an excluded settlement and
\* a language, with and without a country and a language code
ClassStmts ==
    {EntityStmt(id) : id \in {"Qte", "Qhs", "Qex", "Qexs", "Qlang"}}
    \cup {Dated(EntityStmt(id), Some(Future), None) : id \in {"Qex", "Qexs"}}
DispatchInput ==
    \E k \in 0..MaxClasses, p17 \in BOOLEAN, p424 \in BOOLEAN :
    \E a \in [1..k -> ClassStmts] :
        lrec = [ExclBase EXCEPT !.P31 = Some(a),
                    !.P17 = IF p17 THEN @ ELSE None,
                    !.P424 = IF p424 THEN @ ELSE None]

InitLine ==
    /\ PipeIdle /\ QuantIdle
    /\ lclass = {} /\ lout = None /\ ldone = FALSE
    /\ \/ lrec \in MalformedLines
       \/ ExclInput
       \/ CountryInput
       \/ MissingCountryInput
       \/ PopulationInput
       \/ LanguageInput
       \/ DispatchInput

ApplyHandleLine ==
    /\ ~ldone
    /\ lout' = Some(handle_line(lrec))
    /\ ldone' = TRUE
    /\ UNCHANGED <<lrec, lclass, pipeVars, quantVars>>

SpecLine == InitLine /\ [][ApplyHandleLine]_vars

--------------------------------------------------------------------------
(* Properties of handle_line and its parts *)

\* the facts of one type among the sends, in order
FactsOf(sends, type) ==
    LET IsType(x) == x.fact.type = type
        sel == SelectSeq(sends, IsType)
    IN  [i \in 1..Len(sel) |-> sel[i].fact]

\* what handle_line sent for lrec
Sent == Unwrap(lout).sends

\* lrec parsed to an object with an id
Parsed == lrec.kind = "object" /\ IsSome(lrec.id)

\* lrec has a dissolved-date (P576) property with at least one statement
HasDissolved == IsSome(lrec.P576) /\ Len(Unwrap(lrec.P576)) > 0

\* lrec has a replaced-by (P1366) statement without an 'applies to part'
\* (P518) qualifier
HasFullReplacement ==
    /\ IsSome(lrec.P1366)
    /\ \E i \in 1..Len(Unwrap(lrec.P1366)) : ~Unwrap(lrec.P1366)[i].q.P518

\* C1: a record with a dissolved-date statement, or with a replaced-by
\* statement that is not qualified 'applies to part' (also beside one that
\* is), emits zero facts.
C1_ExcludedEmitsNothing ==
    (ldone /\ Parsed /\ (HasDissolved \/ HasFullReplacement)) => Sent = << >>

\* C2: is_subclass_of(R, C) is true iff some 'instance of' statement of R
\* references an id in C, passes is_object_active and has no 'replaced by'
\* qualifier.
C2_SubclassIff ==
    ldone =>
        (Unwrap(lout) <=>
            /\ IsSome(lrec.P31)
            /\ \E i \in 1..Len(Unwrap(lrec.P31)) :
                LET parent == Unwrap(lrec.P31)[i]
                IN  /\ IsSome(parent.vid)
                    /\ Unwrap(parent.vid) \in lclass
                    /\ is_object_active(parent.q)
                    /\ ~parent.q.P1366)

\* C2's case: a matching statement that is inactive or replaced, then a
\* qualifying one, and the result true
C2_Witness ==
    /\ ldone /\ Unwrap(lout) = TRUE
    /\ IsSome(lrec.P31) /\ Len(Unwrap(lrec.P31)) = 2
    /\ LET first == Unwrap(lrec.P31)[1]
       IN  /\ IsSome(first.vid) /\ Unwrap(first.vid) \in lclass
           /\ (~is_object_active(first.q) \/ first.q.P1366)

\* ---- population ----
PopEntries == Unwrap(lrec.P1082)

\* statement i has a point in time (P585) that parses
HasTime(i) ==
    LET p585 == PopEntries[i].q.P585
    IN  /\ IsSome(p585)
        /\ Unwrap(p585).snaktype = "value"
        /\ IsSome(Unwrap(p585).value)
        /\ IsSome(Unwrap(Unwrap(p585).value).time)
        /\ IsSome(Unwrap(Unwrap(p585).value).timezone)
        /\ Unwrap(Unwrap(Unwrap(p585).value).time) >= 0
TimeOf(i) == Unwrap(Unwrap(Unwrap(PopEntries[i].q.P585).value).time)

\* statement i has one of the qualifiers P518, P1539, P1540
Disqualified(i) ==
    \/ PopEntries[i].q.P518 \/ PopEntries[i].q.P1539 \/ PopEntries[i].q.P1540

Candidates == {i \in 1..Len(PopEntries) : HasTime(i) /\ ~Disqualified(i)}

\* the candidate with the greatest time, the later one on equal times
IsBest(b) ==
    /\ b \in Candidates
    /\ \A i \in Candidates :
          \/ TimeOf(i) < TimeOf(b)
          \/ TimeOf(i) = TimeOf(b) /\ i <= b

\* the City facts sent for lrec
Cities == FactsOf(Sent, "City")

\* the P1082 statements of lrec without the disqualified ones
Undisqualified ==
    LET Keep(e) == ~(e.q.P518 \/ e.q.P1539 \/ e.q.P1540)
    IN  SelectSeq(PopEntries, Keep)

\* C7: the emitted City.population is the amount of the candidate statement
\* with the greatest time (the later on equal times) when its unit is "1" and
\* its amount parses; and a statement with a disqualifying qualifier never
\* changes the selected population: the record without it selects the same.
C7_PopulationSelection ==
    (ldone /\ Parsed /\ Len(Cities) > 0 /\ IsSome(lrec.P1082)) =>
        /\ Len(Cities) = 1
        /\ \A b \in Candidates :
              (/\ IsBest(b)
               /\ PopEntries[b].unit = Some("1")
               /\ IsSome(PopEntries[b].amount)
               /\ IsSome(parse_quantity(Unwrap(PopEntries[b].amount))))
              => Cities[1].population
                    = parse_quantity(Unwrap(PopEntries[b].amount))
        /\ Cities[1].population
              = PopulationScan(Undisqualified, 1, None, None).population

\* C7's case: times T1 < T2 < T3, the third statement with 'female
\* population', and the population of the second emitted
C7_Witness ==
    /\ ldone /\ Parsed /\ IsSome(lrec.P1082) /\ Len(PopEntries) = 3
    /\ \A i \in 1..3 : HasTime(i) /\ TimeOf(i) = i
    /\ ~Disqualified(1) /\ ~Disqualified(2) /\ PopEntries[3].q.P1539
    /\ PopEntries[1].amount = Some(<<"7">>)
    /\ PopEntries[2].amount = Some(<<"1", "2">>)
    /\ PopEntries[3].amount = Some(<<"7">>)
    /\ Len(Cities) = 1 /\ Cities[1].population = Some(12)

\* ---- parse_quantity ----
\* qin without the characters parse_quantity removes
Stripped ==
    LET Keep(c) == c \notin {" ", "\t", ",", ".", "+"}
    IN  SelectSeq(qin, Keep)

\* C8 as stated: "1,234" gives 1234, "+56" gives 56, " 12 " gives 12, and
\* "12.5" and "abc" are rejected.
C8_QuantityAsStated ==
    qdone =>
        /\ qin = <<"1", ",", "2", "3", "4">> => qout = Some(1234)
        /\ qin = <<"+", "5", "6">> => qout = Some(56)
        /\ qin = <<" ", "1", "2", " ">> => qout = Some(12)
        /\ qin = <<"1", "2", ".", "5">> => qout = None
        /\ qin = <<"a", "b", "c">> => qout = None

\* C8 amended: '.' is removed like ',', so "12.5" gives 125; the result is
\* the decimal value of what is left after removing ',', '.', '+' and
\* whitespace when that is one or more digits, and no value otherwise.
C8_QuantityAmended ==
    qdone =>
        /\ qin = <<"1", ",", "2", "3", "4">> => qout = Some(1234)
        /\ qin = <<"+", "5", "6">> => qout = Some(56)
        /\ qin = <<" ", "1", "2", " ">> => qout = Some(12)
        /\ qin = <<"1", "2", ".", "5">> => qout = Some(125)
        /\ qin = <<"a", "b", "c">> => qout = None
        /\ IsSome(qout) <=>
              /\ Stripped # << >>
              /\ \A i \in 1..Len(Stripped) : Stripped[i] \in Digits
        /\ IsSome(qout) => Unwrap(qout) = DecValue(Stripped)

\* C8's case: the amount "12.5" parsed to 125
C8_Witness == qdone /\ qin = <<"1", "2", ".", "5">> /\ qout = Some(125)

\* ---- country statements ----
Countries == Unwrap(lrec.P17)
CityCountries == FactsOf(Sent, "CityCountry")

\* statement i is explicitly Inactive at its start or at its end
SkippedCountry(i) ==
    \/ is_object_start_active(Countries[i].q) = Some(FALSE)
    \/ is_object_end_active(Countries[i].q) = Some(FALSE)

\* the priority the claim gives statement i: its index from 0, plus 1000
\* without a start-time qualifier
ClaimedPriority(i) ==
    IF IsSome(Countries[i].q.start) THEN i - 1 ELSE 1000 + (i - 1)

\* lrec went to the human-settlement handler and has a country property
HasCountries == ldone /\ Parsed /\ IsSome(lrec.P17) /\ Len(Cities) > 0

\* C9 as stated: every country statement that is not skipped yields a
\* CityCountry with its priority.
C9_EveryUnskippedEmits ==
    HasCountries =>
        \A i \in 1..Len(Countries) :
            ~SkippedCountry(i) =>
                \E k \in 1..Len(CityCountries) :
                    CityCountries[k].priority = ClaimedPriority(i)

\* C9 amended: the CityCountry facts are, in statement order, exactly those
\* of the statements that are not skipped and have a country id, each with
\* country = that id and priority = i (start date present) or 1000 + i
\* (absent), i counting every statement.
C9_CountryPriority ==
    HasCountries =>
        LET Emits(i) == ~SkippedCountry(i) /\ IsSome(Countries[i].vid)
        IN  /\ Len(CityCountries)
                = Cardinality({i \in 1..Len(Countries) : Emits(i)})
            /\ \A i \in 1..Len(Countries) :
                  Emits(i) =>
                    \E k \in 1..Len(CityCountries) :
                        CityCountries[k]
                          = CityCountry(Unwrap(lrec.id),
                                Unwrap(Countries[i].vid), ClaimedPriority(i))
            /\ \A k, l \in 1..Len(CityCountries) :
                  k < l => (CityCountries[k].priority % 1000)
                            < (CityCountries[l].priority % 1000)

\* C9's case: [dated, undated], both surviving, priorities 0 and 1001
C9_Witness ==
    /\ HasCountries /\ Len(Countries) = 2
    /\ IsSome(Countries[1].q.start) /\ ~IsSome(Countries[2].q.start)
    /\ Len(CityCountries) = 2
    /\ CityCountries[1].priority = 0 /\ CityCountries[2].priority = 1001

\* lrec is classified a human settlement and nothing else, and passes the
\* exclusion test: of the handlers only handle_human_settlement runs
OnlySettlement ==
    /\ Parsed /\ ~HasDissolved /\ ~IsSome(lrec.P1366) /\ ~IsSome(lrec.P297)
    /\ is_subclass_of(lrec, classes.human_settlements)
    /\ \A other \in {classes.territorial_entities, classes.excluded,
                      classes.excluded_settlements, classes.languages} :
          ~is_subclass_of(lrec, other)

\* C10: a record dispatched to the human-settlement handler (and to no
\* other) that has no country property emits exactly one MissingP17 fact and
\* nothing else.
C10_MissingCountry ==
    (ldone /\ OnlySettlement /\ ~IsSome(lrec.P17))
    => /\ FactsOf(Sent, "MissingP17") = <<MissingP17(Unwrap(lrec.id))>>
       /\ Len(Sent) = 1

\* C10's case: such a record, with a parent, labels, coordinates and a
\* population that the handler never gets to
C10_Witness ==
    /\ ldone /\ OnlySettlement /\ ~IsSome(lrec.P17)
    /\ IsSome(lrec.P131) /\ IsSome(lrec.labels) /\ IsSome(lrec.P1082)
    /\ Sent = <<SendTry(MissingP17(Unwrap(lrec.id)))>>

\* ---- the official languages of step 3 ----
\* lrec is not excluded: no dissolved-date statement and no replaced-by
\* statement without 'applies to part'
NotExcluded == ~HasDissolved /\ ~HasFullReplacement

\* the ObjectLanguage facts sent before any handler sends: the handlers
\* begin with a TerritorialEntity, TerritorialEntityParent, MissingP17,
\* CityCountry, City or Language fact
Step3Languages ==
    LET later == {i \in 1..Len(Sent) :
                    Sent[i].fact.type \notin {"Country", "ObjectLanguage"}}
        n == IF later = {} THEN Len(Sent)
             ELSE (CHOOSE i \in later : \A j \in later : i <= j) - 1
    IN  FactsOf(SubSeq(Sent, 1, n), "ObjectLanguage")

OfficialLanguages == Unwrap(lrec.P37)
\* P37 statement i is active by its qualifiers
ActiveLanguage(i) == is_object_active(OfficialLanguages[i].q)
\* P37 statement i is active and its value is an entity
NamedLanguage(i) == ActiveLanguage(i) /\ IsSome(OfficialLanguages[i].vid)

\* C11 as stated: every non-excluded record with an official-language
\* property gets, in step 3, one ObjectLanguage fact per qualifier-active
\* P37 statement, indexed 0,1,2,... over those statements, whether or not it
\* has a country code (P297) and whatever its class.
C11_LanguagesAsStated ==
    (ldone /\ Parsed /\ NotExcluded /\ IsSome(lrec.P37))
    => LET n == Len(OfficialLanguages)
           rank(i) == Cardinality({j \in 1..i : ActiveLanguage(j)})
       IN  /\ Len(Step3Languages) = rank(n)
           /\ \A i \in 1..n : ActiveLanguage(i)
                => /\ IsSome(OfficialLanguages[i].vid)
                   /\ Step3Languages[rank(i)]
                        = ObjectLanguage(Unwrap(lrec.id),
                            Unwrap(OfficialLanguages[i].vid), rank(i) - 1)

\* C11 amended: a non-excluded record with an official-language property
\* gets step-3 ObjectLanguage facts only if it has a country-code (P297)
\* property; then it gets one per qualifier-active P37 statement whose value
\* is an entity, indexed 0,1,2,... over those statements, whatever its class.
C11_CountryLanguages ==
    (ldone /\ Parsed /\ NotExcluded /\ IsSome(lrec.P37))
    => IF ~IsSome(lrec.P297) THEN Step3Languages = << >>
       ELSE LET n == Len(OfficialLanguages)
                rank(i) == Cardinality({j \in 1..i : NamedLanguage(j)})
            IN  /\ Len(Step3Languages) = rank(n)
                /\ \A i \in 1..n : NamedLanguage(i)
                     => Step3Languages[rank(i)]
                          = ObjectLanguage(Unwrap(lrec.id),
                              Unwrap(OfficialLanguages[i].vid), rank(i) - 1)

\* C11's case: a territorial entity with a country code whose first
\* official-language statement is inactive and whose second is active: step
\* 3 gives the second the index 0
C11_Witness ==
    /\ ldone /\ Parsed /\ NotExcluded /\ IsSome(lrec.P37) /\ IsSome(lrec.P297)
    /\ is_subclass_of(lrec, classes.territorial_entities)
    /\ Len(OfficialLanguages) = 2
    /\ ~ActiveLanguage(1) /\ NamedLanguage(2)
    /\ Step3Languages = <<ObjectLanguage(Unwrap(lrec.id),
                            Unwrap(OfficialLanguages[2].vid), 0)>>

\* ---- the dispatch to the handlers ----
\* lrec is an instance of a class of C: some 'instance of' statement names
\* one, is active and is not replaced
InstanceOf(C) ==
    /\ IsSome(lrec.P31)
    /\ \E i \in 1..Len(Unwrap(lrec.P31)) :
        LET parent == Unwrap(lrec.P31)[i]
        IN  /\ IsSome(parent.vid)
            /\ Unwrap(parent.vid) \in C
            /\ is_object_active(parent.q)
            /\ ~parent.q.P1366

\* the handlers that ran, by the fact each always sends: the
\* territorial-entity handler a TerritorialEntity, the human-settlement
\* handler a MissingP17 or a City
TerritorialHandlerRan == FactsOf(Sent, "TerritorialEntity") # << >>
SettlementHandlerRan ==
    FactsOf(Sent, "MissingP17") # << >> \/ FactsOf(Sent, "City") # << >>
\* the language handler sends its one fact when the first language-code
\* (P424) statement has a string
HasLanguageCode ==
    /\ IsSome(lrec.P424) /\ Unwrap(lrec.P424) # << >>
    /\ IsSome(Unwrap(lrec.P424)[1].vstr)

\* C13: for a record that passes the exclusion test, the territorial-entity
\* handler runs iff the record is a territorial entity and not of an excluded
\* class; the human-settlement handler runs iff it is a human settlement,
\* not of an excluded class and not an excluded settlement; the language
\* handler runs iff it is a language.  So a record of an excluded class gets
\* no TerritorialEntity, City, CityCountry or MissingP17 fact.
C13_DispatchGates ==
    (ldone /\ Parsed /\ ~is_dropped(lrec))
    => /\ TerritorialHandlerRan
            <=> /\ InstanceOf(classes.territorial_entities)
                /\ ~InstanceOf(classes.excluded)
       /\ SettlementHandlerRan
            <=> /\ InstanceOf(classes.human_settlements)
                /\ ~InstanceOf(classes.excluded)
                /\ ~InstanceOf(classes.excluded_settlements)
       /\ HasLanguageCode
            => (FactsOf(Sent, "Language") # << >>
                    <=> InstanceOf(classes.languages))
       /\ ~HasLanguageCode => FactsOf(Sent, "Language") = << >>
       /\ InstanceOf(classes.excluded)
            => \A type \in {"TerritorialEntity", "City", "CityCountry",
                            "MissingP17"} : FactsOf(Sent, type) = << >>

\* C13's case: a record that is a territorial entity, a language and of an
\* excluded class gets its Language fact and nothing else
C13_Witness ==
    /\ ldone /\ Parsed /\ ~is_dropped(lrec)
    /\ InstanceOf(classes.excluded) /\ InstanceOf(classes.languages)
    /\ InstanceOf(classes.territorial_entities)
    /\ Sent = <<SendTry(Language(Unwrap(lrec.id), "xx"))>>

\* handlers do not exclude each other: one record gets a TerritorialEntity,
\* a City and a Language fact
C13_AllThree ==
    /\ ldone /\ TerritorialHandlerRan /\ SettlementHandlerRan
    /\ FactsOf(Sent, "Language") # << >>

--------------------------------------------------------------------------
(* The pipeline of main(): reader, worker pool, consumer *)

\* capacity of the cancel channel
CancelCapacity == 3

\* the lines the input can hold
CountryLine == [Rec0 EXCEPT !.P297 = Some(<<StringStmt("DE")>>)]
SettlementLine ==
    [Rec0 EXCEPT !.P31 = Some(<<EntityStmt("Qhs")>>),
                 !.P17 = Some(<<EntityStmt("Qc")>>)]
PipeLines ==
    {[Rec0 EXCEPT !.kind = "badjson"], [Rec0 EXCEPT !.id = None],
     CountryLine, SettlementLine}

\* what handle_line does with each of these lines
Plan == [line \in PipeLines |-> handle_line(line)]

\* a task of the pool: its line, the number of sends made, its outcome
\* ("pending" until the closure ends: "Ok", "Json", "Sink" or "panic")
NewTask(line) == [line |-> line, sent |-> 0, outcome |-> "pending"]

Init ==
    /\ reader = "Running" /\ lineNumber = 0 /\ cancelChan = 0
    /\ interrupted = FALSE
    /\ tasks = << >>
    /\ senders = 1          \* send
    /\ chan = << >> /\ received = << >>
    /\ recvAlive = TRUE /\ consumer = "receiving" /\ process = "running"
    /\ LineIdle /\ QuantIdle

Live == process = "running"

\* ctrlc handler: cancel_send.send(()), which blocks while the channel is
\* full.  The process is interrupted at most once.
Interrupt ==
    /\ Live /\ cancelChan < CancelCapacity
    /\ ~interrupted
    /\ cancelChan' = cancelChan + 1
    /\ interrupted' = TRUE
    /\ UNCHANGED <<reader, lineNumber, tasks, senders, chan, received,
                   recvAlive, consumer, process, lineVars, quantVars>>

\* the loop: cancel_recv.try_recv() yields Ok(()) and the loop breaks
ReaderCancel ==
    /\ Live /\ reader = "Running" /\ cancelChan > 0
    /\ cancelChan' = cancelChan - 1
    /\ reader' = "Cancelled"
    /\ UNCHANGED <<interrupted, lineNumber, tasks, senders, chan, received, recvAlive,
                   consumer, process, lineVars, quantVars>>

\* the mutant: the task is given no handle of its own
SpawnedSenders_borrowed(n) == n

\* the handles after let sink = send.clone()
SpawnedSenders(n) == n + 1

\* the loop: no signal, lines.next() yields a line, a task is spawned with a
\* clone of the sender
ReaderDispatch ==
    /\ Live /\ reader = "Running" /\ cancelChan = 0
    /\ lineNumber < MaxLines
    /\ \E line \in PipeLines :
          tasks' = Append(tasks, NewTask(line))
    /\ lineNumber' = lineNumber + 1
    /\ senders' = SpawnedSenders(senders)
    /\ UNCHANGED <<interrupted, reader, cancelChan, chan, received, recvAlive, consumer,
                   process, lineVars, quantVars>>

\* the loop: no signal, lines.next() yields Eof and the loop breaks
ReaderEof ==
    /\ Live /\ reader = "Running" /\ cancelChan = 0
    /\ reader' = "ExhaustedInput"
    /\ lineNumber' = lineNumber + 1
    /\ UNCHANGED <<interrupted, cancelChan, tasks, senders, chan, received, recvAlive,
                   consumer, process, lineVars, quantVars>>

\* the loop: no signal, lines.next() yields another error: exit(-1)
ReaderLineError ==
    /\ Live /\ reader = "Running" /\ cancelChan = 0
    /\ process' = "exited"
    /\ lineNumber' = lineNumber + 1
    /\ UNCHANGED <<interrupted, reader, cancelChan, tasks, senders, chan, received,
                   recvAlive, consumer, lineVars, quantVars>>

\* the block around the loop ends: send is dropped, main goes to join
ReaderLeaveBlock ==
    /\ Live /\ reader \in {"Cancelled", "ExhaustedInput"}
    /\ reader' = "Draining"
    /\ senders' = senders - 1
    /\ UNCHANGED <<interrupted, lineNumber, cancelChan, tasks, chan, received, recvAlive,
                   consumer, process, lineVars, quantVars>>

\* db_writer.join() returns once the consumer thread has ended; main returns
MainJoin ==
    /\ Live /\ reader = "Draining" /\ consumer = "eos"
    /\ reader' = "Done"
    /\ process' = "done"
    /\ UNCHANGED <<interrupted, lineNumber, cancelChan, tasks, senders, chan, received,
                   recvAlive, consumer, lineVars, quantVars>>

\* the mutant: the sends are made last first
NextSend_reversed(t) == Len(Plan[tasks[t].line].sends) - tasks[t].sent

\* the index, in program order, of the send task t makes next
NextSend(t) == tasks[t].sent + 1

\* task t makes its next send
TaskSend(t) ==
    /\ Live /\ tasks[t].outcome = "pending"
    /\ tasks[t].sent < Len(Plan[tasks[t].line].sends)
    /\ LET op == Plan[tasks[t].line].sends[NextSend(t)]
       IN  IF recvAlive
           THEN /\ chan' = Append(chan, [task |-> t, k |-> NextSend(t),
                                         fact |-> op.fact])
                /\ tasks' = [tasks EXCEPT ![t].sent = @ + 1]
                /\ UNCHANGED <<senders, process>>
           ELSE IF op.onfail = "Sink"
           THEN \* the error is returned and logged; the closure ends and
                \* drops sink
                /\ tasks' = [tasks EXCEPT ![t].outcome = "Sink"]
                /\ senders' = senders - 1
                /\ UNCHANGED <<chan, process>>
           ELSE \* unwrap() panics; the pool's panic handler aborts
                /\ tasks' = [tasks EXCEPT ![t].outcome = "panic"]
                /\ process' = "aborted"
                /\ UNCHANGED <<chan, senders>>
    /\ UNCHANGED <<interrupted, reader, lineNumber, cancelChan, received, recvAlive,
                   consumer, lineVars, quantVars>>

\* task t has made every send: handle_line returns (or panics where it makes
\* none), the closure ends and drops sink
TaskEnd(t) ==
    /\ Live /\ tasks[t].outcome = "pending"
    /\ tasks[t].sent = Len(Plan[tasks[t].line].sends)
    /\ LET result == Plan[tasks[t].line].result
       IN  /\ tasks' = [tasks EXCEPT ![t].outcome = result]
           /\ IF result = "panic"
              THEN process' = "aborted" /\ UNCHANGED senders
              ELSE senders' = senders - 1 /\ UNCHANGED process
    /\ UNCHANGED <<interrupted, reader, lineNumber, cancelChan, chan, received, recvAlive,
                   consumer, lineVars, quantVars>>

\* db_writer receives one fact
ConsumerRecv ==
    /\ Live /\ consumer = "receiving" /\ chan # << >>
    /\ received' = Append(received, Head(chan))
    /\ chan' = Tail(chan)
    /\ UNCHANGED <<interrupted, reader, lineNumber, cancelChan, tasks, senders, recvAlive,
                   consumer, process, lineVars, quantVars>>

\* db_writer's receive reports the channel empty and disconnected: it
\* returns Ok(()) and the thread ends
ConsumerEos ==
    /\ Live /\ consumer = "receiving" /\ chan = << >> /\ senders = 0
    /\ consumer' = "eos"
    /\ recvAlive' = FALSE
    /\ UNCHANGED <<interrupted, reader, lineNumber, cancelChan, tasks, senders, chan,
                   received, process, lineVars, quantVars>>

\* db_writer returns Err: recv is dropped with it
ConsumerFail ==
    /\ Live /\ consumer = "receiving"
    /\ consumer' = "failed"
    /\ recvAlive' = FALSE
    /\ UNCHANGED <<interrupted, reader, lineNumber, cancelChan, tasks, senders, chan,
                   received, process, lineVars, quantVars>>

\* the consumer thread logs the error and calls exit(-1)
ConsumerExit ==
    /\ Live /\ consumer = "failed"
    /\ process' = "exited"
    /\ UNCHANGED <<interrupted, reader, lineNumber, cancelChan, tasks, senders, chan,
                   received, recvAlive, consumer, lineVars, quantVars>>

Next ==
    \/ Interrupt
    \/ ReaderCancel
    \/ ReaderDispatch
    \/ ReaderEof
    \/ ReaderLineError
    \/ ReaderLeaveBlock
    \/ MainJoin
    \/ \E t \in 1..Len(tasks) : TaskSend(t)
    \/ \E t \in 1..Len(tasks) : TaskEnd(t)
    \/ ConsumerRecv
    \/ ConsumerEos
    \/ ConsumerFail
    \/ ConsumerExit

Spec == Init /\ [][Next]_vars

--------------------------------------------------------------------------
(* Properties of the pipeline *)

\* the line of task t is no usable record: it is not JSON, or has no id
Malformed(t) ==
    tasks[t].line.kind = "badjson" \/ ~IsSome(tasks[t].line.id)

\* C3: handle_line never panics, also on a line that is not JSON or that
\* has no string id: the task ends Ok or with a line-local error, the line
\* contributes no fact, and the run is not aborted by it.
C3_MalformedLineIsLocal ==
    \A t \in 1..Len(tasks) :
        Malformed(t) =>
            /\ tasks[t].outcome \in {"pending", "Ok", "Json"}
            /\ tasks[t].sent = 0

\* task t ended before making all its sends: one of them failed
SendFailed(t) ==
    /\ tasks[t].outcome # "pending"
    /\ tasks[t].sent < Len(Plan[tasks[t].line].sends)

\* C4: a task whose send fails, at whichever send, ends with the
\* record-local error HandleLineError::Sink; it does not panic.
C4_FailedSendIsSinkError ==
    \A t \in 1..Len(tasks) : SendFailed(t) => tasks[t].outcome = "Sink"

\* the k-th send of task t has been received
Received(t, k) ==
    \E i \in 1..Len(received) : received[i].task = t /\ received[i].k = k

\* C5: the consumer observes end-of-stream only after the reader's sender
\* and the sender clone of every dispatched task have been dropped, and by
\* then it has received every fact any task sent.
C5_DrainGuarantee ==
    consumer = "eos" =>
        /\ reader \in {"Draining", "Done"}
        /\ \A t \in 1..Len(tasks) :
              /\ tasks[t].outcome # "pending"
              /\ \A k \in 1..tasks[t].sent : Received(t, k)
        /\ chan = << >>

\* C5's case: the reader stopped on the signal with a task dispatched, and
\* the consumer saw end-of-stream after receiving the task's facts
C5_Witness ==
    /\ consumer = "eos" /\ interrupted /\ cancelChan = 0
    /\ Len(tasks) > 0 /\ Len(received) >= 2

\* C6: two facts of the same record are received in the order in which
\* handle_line sent them.
C6_RecordOrder ==
    \A i, j \in 1..Len(received) :
        (i < j /\ received[i].task = received[j].task)
            => received[i].k < received[j].k

\* C6's case: two facts of one record received around a fact of another
C6_Witness ==
    \E i, j, l \in 1..Len(received) :
        /\ i < j /\ j < l
        /\ received[i].task = received[l].task
        /\ received[i].task # received[j].task

\* ---- the phases of the run ----
\* a step of task t, whichever it is
TaskStep(t) == t \in 1..Len(tasks) /\ (TaskSend(t) \/ TaskEnd(t))

\* main's thread goes on after the loop, the pool runs every task it was
\* given, and the consumer thread goes on receiving
Fairness ==
    /\ WF_vars(ReaderLeaveBlock)
    /\ WF_vars(MainJoin)
    /\ \A t \in 1..MaxLines : WF_vars(TaskStep(t))
    /\ WF_vars(ConsumerRecv)
    /\ WF_vars(ConsumerEos)

SpecFair == Init /\ [][Next]_vars /\ Fairness

\* the reader has observed the cancellation signal or the end of the input
Stopped == reader \in {"Cancelled", "ExhaustedInput"}

\* the phases in order
PhaseOrder ==
    {<<"Running", "Cancelled">>, <<"Running", "ExhaustedInput">>,
     <<"Cancelled", "Draining">>, <<"ExhaustedInput", "Draining">>,
     <<"Draining", "Done">>}

\* C12, the order of the phases: the phase changes only forward, and once
\* the reader has left Running no line is read and no task is dispatched.
C12_PhaseOrder ==
    [][/\ reader' # reader => <<reader, reader'>> \in PhaseOrder
       /\ reader # "Running"
            => lineNumber' = lineNumber /\ Len(tasks') = Len(tasks)]_vars

\* C12, termination: when the reader has stopped, and the consumer does not
\* fail, the run reaches Done.
C12_EventuallyDone ==
    [](consumer # "failed") => (Stopped ~> reader = "Done")

\* C12: the run follows Running, Cancelled or ExhaustedInput, Draining, Done
\* in that order and never goes back, reads and dispatches nothing after
\* the reader has stopped, and, the tasks being run and the consumer
\* receiving, reaches Done.
C12_PhasesToDone == C12_PhaseOrder /\ C12_EventuallyDone

\* termination where no task panics either
C12_DoneUnlessAborted ==
    [](consumer # "failed" /\ process # "aborted")
        => (Stopped ~> reader = "Done")

==========================================================================
